---- MODULE Spec2Model ----
(***************************************************************************)
(* Model of src/GetBoxScores.py: the resumable box-score fetch loop        *)
(* (get_historical_boxscores), its deduplicator (_clean_for_tableau) and   *)
(* the season expander (_season_iter).                                     *)
(*                                                                         *)
(* A data frame is a sequence of rows; a row is a record                   *)
(* [gameId, ent, val]: the game identifier, the entity (player or team)    *)
(* identifier and one statistics column (0 in ent or val: the field is     *)
(* missing).  A file                                                       *)
(* on disk is a record [st, rows] / [st, text] with st = "absent" (no      *)
(* file), "trunc" (opened for writing, nothing flushed yet: zero bytes) or *)
(* "ok" (pandas can read it: a header and the rows).                       *)
(*                                                                         *)
(* A text (a game identifier, the content of the marker file, a season     *)
(* token or label) is a sequence of characters.  A character is a          *)
(* one-character string when it is a printable ASCII character or one of   *)
(* tab, newline, form feed and carriage return ("\t", "\n", "\f", "\r"),   *)
(* and the name of its code point otherwise ("U+000B", "U+0663").          *)
(***************************************************************************)
EXTENDS Integers, Sequences, FiniteSets, TLC

\* ------------------------------------------------------------------ bounds
NumGames == 2
NumEnts == 2
NumVals == 2
MaxFrameLen == 3
YearLo == 1998
YearSpan == 3
NumTeams == 2
NumDates == 2
MaxGamesLen == 3
MaxCalls == 2

\* ------------------------------------------------------- program constants
CheckpointEvery == 100
DefaultTimeBuffer == 60
MinTimeBuffer == 1
MaxTimeBuffer == 1000
FailurePause == 3000
RegularSeasonGames == 82

\* ------------------------------------------------------------ value spaces
IdName ==
  <<<<"g", "1">>, <<"g", "2">>, <<"g", "3">>, <<"g", "4">>, <<"g", "5">>>>
AllIds == SubSeq(IdName, 1, NumGames)
Range(s) == {s[k] : k \in 1..Len(s)}
IdSet == Range(AllIds)
Ents == 1..NumEnts
Row(g, e, v) == [gameId |-> g, ent |-> e, val |-> v]

\* The game_ids argument of a run: get_game_ids returns the distinct
\* GAME_ID values of the games frame, so the list has no repeated entry.
\* The list of a season grows as the season is played.
GameIdLists == {SubSeq(AllIds, 1, n) : n \in 1..NumGames}

\* BoxScore*V3(game_id=gid).get_data_frames()[df_index]: the rows of one
\* game, one per entity, possibly none.
FetchResults(gid) == {[k \in 1..n |-> Row(gid, k, 1)] : n \in 0..NumEnts}

ModeLabels == {"trad", "adv"}
mode_label(adv) == IF adv THEN "adv" ELSE "trad"

\* ----------------------------------------------------------- pure helpers
RECURSIVE DropDuplicatesRev(_, _)
\* Variant: kept rows are collected in front, so the result is reversed.
DropDuplicatesRev(df, acc) ==
  IF df = << >> THEN acc
  ELSE IF Head(df) \in Range(acc)
       THEN DropDuplicatesRev(Tail(df), acc)
       ELSE DropDuplicatesRev(Tail(df), <<Head(df)>> \o acc)

RECURSIVE DropDuplicates(_, _)
\* DataFrame.drop_duplicates(): keep the first occurrence of every row that
\* is equal in all columns; acc is the frame built so far.
DropDuplicates(df, acc) ==
  IF df = << >> THEN acc
  ELSE IF Head(df) \in Range(acc)
       THEN DropDuplicates(Tail(df), acc)
       ELSE DropDuplicates(Tail(df), Append(acc, Head(df)))

\* gameId is already text in the model and no modelled column name ends in
\* "date"/"timestamp", so only the duplicate drop changes the frame.
_clean_for_tableau(df) == DropDuplicates(df, << >>)

AbsentCsv == [st |-> "absent", rows |-> << >>]
TruncCsv == [st |-> "trunc", rows |-> << >>]
WrittenCsv(df) == [st |-> "ok", rows |-> df]
\* str(gid): the identifiers of get_game_ids are texts already.
str(gid) == gid
AbsentTxt == [st |-> "absent", text |-> << >>]
TruncTxt == [st |-> "ok", text |-> << >>]
WrittenTxt(gid) == [st |-> "ok", text |-> str(gid)]
\* A marker file whose bytes are not text: fh.read() raises
\* UnicodeDecodeError.  Opening it for writing replaces it as any file.
GarbledTxt == [st |-> "garbled", text |-> << >>]

\* open(last_id_path, "r").read(): a text-mode read turns the line ends
\* "\r\n" and "\r" into "\n".
RECURSIVE fh_read(_)
fh_read(t) ==
  IF t = << >> THEN << >>
  ELSE IF Head(t) = "\r"
       THEN IF Len(t) >= 2 /\ t[2] = "\n"
            THEN <<"\n">> \o fh_read(SubSeq(t, 3, Len(t)))
            ELSE <<"\n">> \o fh_read(Tail(t))
       ELSE <<Head(t)>> \o fh_read(Tail(t))

\* The characters str.strip() removes: those with str.isspace().
Whitespace ==
  {"\t", "\n", "U+000B", "\f", "\r", "U+001C", "U+001D", "U+001E",
   "U+001F", " ", "U+0085", "U+00A0", "U+1680", "U+2000", "U+2001",
   "U+2002", "U+2003", "U+2004", "U+2005", "U+2006", "U+2007", "U+2008",
   "U+2009", "U+200A", "U+2028", "U+2029", "U+202F", "U+205F", "U+3000"}
RECURSIVE lstrip(_)
lstrip(t) ==
  IF t # << >> /\ Head(t) \in Whitespace THEN lstrip(Tail(t)) ELSE t
RECURSIVE rstrip(_)
rstrip(t) ==
  IF t # << >> /\ t[Len(t)] \in Whitespace
  THEN rstrip(SubSeq(t, 1, Len(t) - 1)) ELSE t
\* str.strip(): the text without the white space at its two ends
strip(t) == rstrip(lstrip(t))

\* The marker file the first call can find: none, or one that was put there
\* by hand or by another tool (an identifier on a line of its own), or one
\* that is not text.
InitialMarkers ==
  {AbsentTxt, GarbledTxt}
    \cup {[st |-> "ok", text |-> <<" ">> \o g \o <<"\r", "\n">>] : g \in IdSet}
    \cup {[st |-> "ok", text |-> <<"U+00A0">> \o g \o <<"\f">>] : g \in IdSet}

\* The beginning of a game identifier that a cut line ends in: the
\* identifier without its last character.  Every identifier is as long as
\* the others, so such a beginning is no identifier.  A text of one
\* character has no shorter beginning that is not empty.
PartialId(gid) ==
  IF Len(gid) > 1 THEN SubSeq(gid, 1, Len(gid) - 1) ELSE gid

\* The column in which a cut line of the CSV ends.  The ent and val fields
\* of the model are one character wide, so a line that ends in one of them
\* has none of its characters.
CutFields == {"gameId", "ent", "val"}

\* A line of the CSV that was cut in the given column, as read_csv loads
\* it: the columns to the right are NaN (0 in the model), and a line cut
\* inside the identifier is a row of no game.
CutRow(r, field) ==
  CASE field = "gameId" -> Row(PartialId(r.gameId), 0, 0)
    [] field = "ent" -> Row(r.gameId, 0, 0)
    [] OTHER -> Row(r.gameId, r.ent, 0)

\* How far DataFrame.to_csv(path) got when the process was killed.  to_csv
\* opens the path for writing, which empties the file, and writes through
\* a buffer that is flushed to the path whenever it is full, so the file is
\* empty ("empty"), or the header and the first n lines ("line"), or these
\* and a beginning of the next line that ends in one of its columns, or
\* complete ("whole").
WriteOutcomes == {"empty", "line", "whole"} \cup CutFields

\* The most rows a cleaned frame has: the rows of every game and one row
\* of no game.
MaxLines == NumGames * NumEnts + 1
IsWriteOutcome(df, how, n) ==
  IF how \in {"empty", "whole"} THEN n = 0 ELSE n < Len(df)
InterruptedCsv(df, how, n) ==
  CASE how = "empty" -> TruncCsv
    [] how = "line" -> WrittenCsv(SubSeq(df, 1, n))
    [] how \in CutFields ->
         WrittenCsv(Append(SubSeq(df, 1, n), CutRow(df[n + 1], how)))
    [] OTHER -> WrittenCsv(df)

\* The time_buffer argument in hundredths of a second: below the minimum
\* of line 174, the default of line 144, and above the cap of line 241.
TimeBufferArgs == {0, DefaultTimeBuffer, 3 * MaxTimeBuffer}

\* Variant: the prior file is not loaded.
ReadNothing(f) == << >>

\* _read_existing_csv: the rows of the file, or a frame with only the
\* gameId column when there is no file.
_read_existing_csv(f) == IF f.st = "ok" THEN f.rows ELSE << >>

\* Variant: identifiers that are done are not filtered out.
SelectAll(s, done) == s

RECURSIVE SelectSeqNotIn(_, _)
\* [gid for gid in game_ids if str(gid) not in done_ids]
SelectSeqNotIn(s, done) ==
  IF s = << >> THEN << >>
  ELSE IF Head(s) \in done THEN SelectSeqNotIn(Tail(s), done)
       ELSE <<Head(s)>> \o SelectSeqNotIn(Tail(s), done)

\* list.index(x): the first position of x in s (x is in s)
Index(s, x) == CHOOSE k \in 1..Len(s) : s[k] = x /\ \A j \in 1..(k-1) : s[j] # x

\* Variant: the marker is ignored.
ResumeFromStart(rem, m) == rem

\* remaining after the resume step (lines 193-202): without a marker file
\* the list stays; a marker that cannot be read raises inside the try and
\* the list stays (lines 201-202); else the list is cut at the identifier
\* whose text is the stripped content of the marker, when there is one.
Resume(rem, m) ==
  IF m.st = "absent" THEN rem
  ELSE IF m.st = "garbled" THEN rem
  ELSE LET last_gid == strip(fh_read(m.text))
       IN IF last_gid \in Range(rem)
          THEN SubSeq(rem, Index(rem, last_gid), Len(rem))
          ELSE rem

\* round(min(time_buffer * 1.5, 10.0), 2), in hundredths of a second.  For
\* an odd number of hundredths the product ends in a half of a hundredth,
\* which is not a binary fraction: the double nearest to it lies above or
\* below the half and round() follows it.  HalfRoundsDown lists the odd
\* values below the cap whose product rounds down (1.5 * 0.01 -> 0.01,
\* 1.5 * 2.03 -> 3.04); every other odd value rounds up (1.5 * 1.35 -> 2.03,
\* 1.5 * 2.25 -> 3.38).
HalfRoundsDown ==
  {1, 3, 15, 29, 31, 33, 35, 37, 39, 41, 47, 49, 57, 69, 71, 73, 75, 83,
   85, 87, 89, 91, 95, 99, 103, 107, 113, 115, 117, 119, 121, 123, 139,
   141, 145, 149, 153, 157, 163, 165, 167, 171, 173, 175, 181, 189, 191,
   195, 199, 201, 203, 205, 207, 209, 213, 215, 217, 221, 223, 231, 239,
   251, 253, 255, 257, 259, 263, 265, 267, 271, 273, 275, 281, 287, 289,
   301, 303, 305, 307, 309, 315, 317, 321, 323, 331, 337, 339, 351, 353,
   355, 357, 359, 365, 367, 371, 373, 375, 381, 387, 389, 401, 403, 405,
   409, 417, 421, 427, 431, 435, 437, 439, 443, 451, 453, 455, 459, 467,
   471, 475, 477, 481, 485, 487, 489, 493, 501, 503, 505, 509, 517, 521,
   527, 531, 535, 537, 539, 543, 549, 553, 555, 559, 567, 571, 575, 577,
   581, 585, 587, 589, 593, 599, 603, 605, 609, 617, 621, 627, 631, 635,
   637, 639, 643, 649, 653, 655, 659}
Backoff(tb) ==
  CASE tb * 3 >= 2 * MaxTimeBuffer -> MaxTimeBuffer
    [] tb % 2 = 0 -> (tb * 3) \div 2
    [] tb \in HalfRoundsDown -> (tb * 3 - 1) \div 2
    [] OTHER -> (tb * 3 + 1) \div 2

Max(a, b) == IF a >= b THEN a ELSE b


\* ------------------------------------------------------- _season_iter
\* A token and a season label are sequences of characters; a character is
\* a one-character string, or the name of its code point ("U+0663") when it
\* is not an ASCII character.
Digits == <<"0", "1", "2", "3", "4", "5", "6", "7", "8", "9">>
\* The pattern of line 22 is a str pattern, so its digit class matches every
\* Unicode decimal digit (category Nd), and int() converts every one of
\* them.  DigitScripts lists them all, ten characters zero..nine per
\* script: the ASCII digits and the 65 others of Unicode 14.
DigitScripts ==
  {Digits,
   <<"U+0660", "U+0661", "U+0662", "U+0663", "U+0664",
     "U+0665", "U+0666", "U+0667", "U+0668", "U+0669">>,
   <<"U+06F0", "U+06F1", "U+06F2", "U+06F3", "U+06F4",
     "U+06F5", "U+06F6", "U+06F7", "U+06F8", "U+06F9">>,
   <<"U+07C0", "U+07C1", "U+07C2", "U+07C3", "U+07C4",
     "U+07C5", "U+07C6", "U+07C7", "U+07C8", "U+07C9">>,
   <<"U+0966", "U+0967", "U+0968", "U+0969", "U+096A",
     "U+096B", "U+096C", "U+096D", "U+096E", "U+096F">>,
   <<"U+09E6", "U+09E7", "U+09E8", "U+09E9", "U+09EA",
     "U+09EB", "U+09EC", "U+09ED", "U+09EE", "U+09EF">>,
   <<"U+0A66", "U+0A67", "U+0A68", "U+0A69", "U+0A6A",
     "U+0A6B", "U+0A6C", "U+0A6D", "U+0A6E", "U+0A6F">>,
   <<"U+0AE6", "U+0AE7", "U+0AE8", "U+0AE9", "U+0AEA",
     "U+0AEB", "U+0AEC", "U+0AED", "U+0AEE", "U+0AEF">>,
   <<"U+0B66", "U+0B67", "U+0B68", "U+0B69", "U+0B6A",
     "U+0B6B", "U+0B6C", "U+0B6D", "U+0B6E", "U+0B6F">>,
   <<"U+0BE6", "U+0BE7", "U+0BE8", "U+0BE9", "U+0BEA",
     "U+0BEB", "U+0BEC", "U+0BED", "U+0BEE", "U+0BEF">>,
   <<"U+0C66", "U+0C67", "U+0C68", "U+0C69", "U+0C6A",
     "U+0C6B", "U+0C6C", "U+0C6D", "U+0C6E", "U+0C6F">>,
   <<"U+0CE6", "U+0CE7", "U+0CE8", "U+0CE9", "U+0CEA",
     "U+0CEB", "U+0CEC", "U+0CED", "U+0CEE", "U+0CEF">>,
   <<"U+0D66", "U+0D67", "U+0D68", "U+0D69", "U+0D6A",
     "U+0D6B", "U+0D6C", "U+0D6D", "U+0D6E", "U+0D6F">>,
   <<"U+0DE6", "U+0DE7", "U+0DE8", "U+0DE9", "U+0DEA",
     "U+0DEB", "U+0DEC", "U+0DED", "U+0DEE", "U+0DEF">>,
   <<"U+0E50", "U+0E51", "U+0E52", "U+0E53", "U+0E54",
     "U+0E55", "U+0E56", "U+0E57", "U+0E58", "U+0E59">>,
   <<"U+0ED0", "U+0ED1", "U+0ED2", "U+0ED3", "U+0ED4",
     "U+0ED5", "U+0ED6", "U+0ED7", "U+0ED8", "U+0ED9">>,
   <<"U+0F20", "U+0F21", "U+0F22", "U+0F23", "U+0F24",
     "U+0F25", "U+0F26", "U+0F27", "U+0F28", "U+0F29">>,
   <<"U+1040", "U+1041", "U+1042", "U+1043", "U+1044",
     "U+1045", "U+1046", "U+1047", "U+1048", "U+1049">>,
   <<"U+1090", "U+1091", "U+1092", "U+1093", "U+1094",
     "U+1095", "U+1096", "U+1097", "U+1098", "U+1099">>,
   <<"U+17E0", "U+17E1", "U+17E2", "U+17E3", "U+17E4",
     "U+17E5", "U+17E6", "U+17E7", "U+17E8", "U+17E9">>,
   <<"U+1810", "U+1811", "U+1812", "U+1813", "U+1814",
     "U+1815", "U+1816", "U+1817", "U+1818", "U+1819">>,
   <<"U+1946", "U+1947", "U+1948", "U+1949", "U+194A",
     "U+194B", "U+194C", "U+194D", "U+194E", "U+194F">>,
   <<"U+19D0", "U+19D1", "U+19D2", "U+19D3", "U+19D4",
     "U+19D5", "U+19D6", "U+19D7", "U+19D8", "U+19D9">>,
   <<"U+1A80", "U+1A81", "U+1A82", "U+1A83", "U+1A84",
     "U+1A85", "U+1A86", "U+1A87", "U+1A88", "U+1A89">>,
   <<"U+1A90", "U+1A91", "U+1A92", "U+1A93", "U+1A94",
     "U+1A95", "U+1A96", "U+1A97", "U+1A98", "U+1A99">>,
   <<"U+1B50", "U+1B51", "U+1B52", "U+1B53", "U+1B54",
     "U+1B55", "U+1B56", "U+1B57", "U+1B58", "U+1B59">>,
   <<"U+1BB0", "U+1BB1", "U+1BB2", "U+1BB3", "U+1BB4",
     "U+1BB5", "U+1BB6", "U+1BB7", "U+1BB8", "U+1BB9">>,
   <<"U+1C40", "U+1C41", "U+1C42", "U+1C43", "U+1C44",
     "U+1C45", "U+1C46", "U+1C47", "U+1C48", "U+1C49">>,
   <<"U+1C50", "U+1C51", "U+1C52", "U+1C53", "U+1C54",
     "U+1C55", "U+1C56", "U+1C57", "U+1C58", "U+1C59">>,
   <<"U+A620", "U+A621", "U+A622", "U+A623", "U+A624",
     "U+A625", "U+A626", "U+A627", "U+A628", "U+A629">>,
   <<"U+A8D0", "U+A8D1", "U+A8D2", "U+A8D3", "U+A8D4",
     "U+A8D5", "U+A8D6", "U+A8D7", "U+A8D8", "U+A8D9">>,
   <<"U+A900", "U+A901", "U+A902", "U+A903", "U+A904",
     "U+A905", "U+A906", "U+A907", "U+A908", "U+A909">>,
   <<"U+A9D0", "U+A9D1", "U+A9D2", "U+A9D3", "U+A9D4",
     "U+A9D5", "U+A9D6", "U+A9D7", "U+A9D8", "U+A9D9">>,
   <<"U+A9F0", "U+A9F1", "U+A9F2", "U+A9F3", "U+A9F4",
     "U+A9F5", "U+A9F6", "U+A9F7", "U+A9F8", "U+A9F9">>,
   <<"U+AA50", "U+AA51", "U+AA52", "U+AA53", "U+AA54",
     "U+AA55", "U+AA56", "U+AA57", "U+AA58", "U+AA59">>,
   <<"U+ABF0", "U+ABF1", "U+ABF2", "U+ABF3", "U+ABF4",
     "U+ABF5", "U+ABF6", "U+ABF7", "U+ABF8", "U+ABF9">>,
   <<"U+FF10", "U+FF11", "U+FF12", "U+FF13", "U+FF14",
     "U+FF15", "U+FF16", "U+FF17", "U+FF18", "U+FF19">>,
   <<"U+104A0", "U+104A1", "U+104A2", "U+104A3", "U+104A4",
     "U+104A5", "U+104A6", "U+104A7", "U+104A8", "U+104A9">>,
   <<"U+10D30", "U+10D31", "U+10D32", "U+10D33", "U+10D34",
     "U+10D35", "U+10D36", "U+10D37", "U+10D38", "U+10D39">>,
   <<"U+11066", "U+11067", "U+11068", "U+11069", "U+1106A",
     "U+1106B", "U+1106C", "U+1106D", "U+1106E", "U+1106F">>,
   <<"U+110F0", "U+110F1", "U+110F2", "U+110F3", "U+110F4",
     "U+110F5", "U+110F6", "U+110F7", "U+110F8", "U+110F9">>,
   <<"U+11136", "U+11137", "U+11138", "U+11139", "U+1113A",
     "U+1113B", "U+1113C", "U+1113D", "U+1113E", "U+1113F">>,
   <<"U+111D0", "U+111D1", "U+111D2", "U+111D3", "U+111D4",
     "U+111D5", "U+111D6", "U+111D7", "U+111D8", "U+111D9">>,
   <<"U+112F0", "U+112F1", "U+112F2", "U+112F3", "U+112F4",
     "U+112F5", "U+112F6", "U+112F7", "U+112F8", "U+112F9">>,
   <<"U+11450", "U+11451", "U+11452", "U+11453", "U+11454",
     "U+11455", "U+11456", "U+11457", "U+11458", "U+11459">>,
   <<"U+114D0", "U+114D1", "U+114D2", "U+114D3", "U+114D4",
     "U+114D5", "U+114D6", "U+114D7", "U+114D8", "U+114D9">>,
   <<"U+11650", "U+11651", "U+11652", "U+11653", "U+11654",
     "U+11655", "U+11656", "U+11657", "U+11658", "U+11659">>,
   <<"U+116C0", "U+116C1", "U+116C2", "U+116C3", "U+116C4",
     "U+116C5", "U+116C6", "U+116C7", "U+116C8", "U+116C9">>,
   <<"U+11730", "U+11731", "U+11732", "U+11733", "U+11734",
     "U+11735", "U+11736", "U+11737", "U+11738", "U+11739">>,
   <<"U+118E0", "U+118E1", "U+118E2", "U+118E3", "U+118E4",
     "U+118E5", "U+118E6", "U+118E7", "U+118E8", "U+118E9">>,
   <<"U+11950", "U+11951", "U+11952", "U+11953", "U+11954",
     "U+11955", "U+11956", "U+11957", "U+11958", "U+11959">>,
   <<"U+11C50", "U+11C51", "U+11C52", "U+11C53", "U+11C54",
     "U+11C55", "U+11C56", "U+11C57", "U+11C58", "U+11C59">>,
   <<"U+11D50", "U+11D51", "U+11D52", "U+11D53", "U+11D54",
     "U+11D55", "U+11D56", "U+11D57", "U+11D58", "U+11D59">>,
   <<"U+11DA0", "U+11DA1", "U+11DA2", "U+11DA3", "U+11DA4",
     "U+11DA5", "U+11DA6", "U+11DA7", "U+11DA8", "U+11DA9">>,
   <<"U+16A60", "U+16A61", "U+16A62", "U+16A63", "U+16A64",
     "U+16A65", "U+16A66", "U+16A67", "U+16A68", "U+16A69">>,
   <<"U+16AC0", "U+16AC1", "U+16AC2", "U+16AC3", "U+16AC4",
     "U+16AC5", "U+16AC6", "U+16AC7", "U+16AC8", "U+16AC9">>,
   <<"U+16B50", "U+16B51", "U+16B52", "U+16B53", "U+16B54",
     "U+16B55", "U+16B56", "U+16B57", "U+16B58", "U+16B59">>,
   <<"U+1D7CE", "U+1D7CF", "U+1D7D0", "U+1D7D1", "U+1D7D2",
     "U+1D7D3", "U+1D7D4", "U+1D7D5", "U+1D7D6", "U+1D7D7">>,
   <<"U+1D7D8", "U+1D7D9", "U+1D7DA", "U+1D7DB", "U+1D7DC",
     "U+1D7DD", "U+1D7DE", "U+1D7DF", "U+1D7E0", "U+1D7E1">>,
   <<"U+1D7E2", "U+1D7E3", "U+1D7E4", "U+1D7E5", "U+1D7E6",
     "U+1D7E7", "U+1D7E8", "U+1D7E9", "U+1D7EA", "U+1D7EB">>,
   <<"U+1D7EC", "U+1D7ED", "U+1D7EE", "U+1D7EF", "U+1D7F0",
     "U+1D7F1", "U+1D7F2", "U+1D7F3", "U+1D7F4", "U+1D7F5">>,
   <<"U+1D7F6", "U+1D7F7", "U+1D7F8", "U+1D7F9", "U+1D7FA",
     "U+1D7FB", "U+1D7FC", "U+1D7FD", "U+1D7FE", "U+1D7FF">>,
   <<"U+1E140", "U+1E141", "U+1E142", "U+1E143", "U+1E144",
     "U+1E145", "U+1E146", "U+1E147", "U+1E148", "U+1E149">>,
   <<"U+1E2F0", "U+1E2F1", "U+1E2F2", "U+1E2F3", "U+1E2F4",
     "U+1E2F5", "U+1E2F6", "U+1E2F7", "U+1E2F8", "U+1E2F9">>,
   <<"U+1E950", "U+1E951", "U+1E952", "U+1E953", "U+1E954",
     "U+1E955", "U+1E956", "U+1E957", "U+1E958", "U+1E959">>,
   <<"U+1FBF0", "U+1FBF1", "U+1FBF2", "U+1FBF3", "U+1FBF4",
     "U+1FBF5", "U+1FBF6", "U+1FBF7", "U+1FBF8", "U+1FBF9">>}
\* Scripts in which the tokens below are written.
ArabicIndicDigits ==
  <<"U+0660", "U+0661", "U+0662", "U+0663", "U+0664", "U+0665", "U+0666",
    "U+0667", "U+0668", "U+0669">>
DevanagariDigits ==
  <<"U+0966", "U+0967", "U+0968", "U+0969", "U+096A", "U+096B", "U+096C",
    "U+096D", "U+096E", "U+096F">>
DoubleStruckDigits ==
  <<"U+1D7D8", "U+1D7D9", "U+1D7DA", "U+1D7DB", "U+1D7DC", "U+1D7DD",
    "U+1D7DE", "U+1D7DF", "U+1D7E0", "U+1D7E1">>
TokenScripts == {Digits, ArabicIndicDigits, DevanagariDigits, DoubleStruckDigits}
IsDigit(c) == \E sc \in DigitScripts : c \in Range(sc)
DigitVal(c) == CHOOSE d \in 0..9 : \E sc \in DigitScripts : sc[d + 1] = c
AllDigits(s) == \A k \in 1..Len(s) : IsDigit(s[k])

RECURSIVE int(_)
\* int(s) of a string of decimal digits, of any script and mixed
int(s) ==
  IF s = << >> THEN 0
  ELSE 10 * int(SubSeq(s, 1, Len(s) - 1)) + DigitVal(s[Len(s)])

RECURSIVE Str(_)
\* f"{n}": the decimal digits of n, no padding
Str(n) ==
  IF n < 10 THEN <<Digits[n + 1]>>
  ELSE Str(n \div 10) \o <<Digits[(n % 10) + 1]>>

\* f"{n:02d}": at least two digits, zero padded
Fmt02d(n) == IF n < 10 THEN <<"0">> \o Str(n) ELSE Str(n)

\* "$" matches at the end of the string and also just before a newline that
\* ends the string.
StripNewline(t) ==
  IF Len(t) >= 1 /\ t[Len(t)] = "\n" THEN SubSeq(t, 1, Len(t) - 1) ELSE t

\* re.match(r"^(\d{4})-(\d{2}|\d{4})$", seasons) is not None
range_match(t) ==
  LET c == StripNewline(t)
  IN /\ Len(c) \in {7, 9}
     /\ AllDigits(SubSeq(c, 1, 4))
     /\ c[5] = "-"
     /\ AllDigits(SubSeq(c, 6, Len(c)))

\* Variant: the end year is not reduced modulo 100.
SeasonLabelNoWrap(y) == Str(y) \o <<"-">> \o Fmt02d(y + 1)

\* f"{y}-{(y+1) % 100:02d}"
SeasonLabel(y) == Str(y) \o <<"-">> \o Fmt02d((y + 1) % 100)

RECURSIVE SeasonLoop(_, _)
\* for y in range(start, end + 1): out.append(label of y)
SeasonLoop(y, end) ==
  IF y >= end + 1 THEN << >>
  ELSE <<SeasonLabel(y)>> \o SeasonLoop(y + 1, end)

Raised == [raised |-> TRUE, value |-> << >>]
Returned(v) == [raised |-> FALSE, value |-> v]

_season_iter(t) ==
  IF ~range_match(t) THEN Raised
  ELSE LET c == StripNewline(t)
           start == int(SubSeq(c, 1, 4))
           end == SubSeq(c, 6, Len(c))
       IN IF Len(end) = 2
          THEN Returned(<<Str(start) \o <<"-">> \o Fmt02d(int(end))>>)
          ELSE Returned(SeasonLoop(start, int(end)))

\* The tokens the season expander is applied to: ranges and single seasons
\* over the years YearLo..YearLo+YearSpan, and damaged copies of them.
SeasonYears == YearLo..(YearLo + YearSpan)
RangeTokens == {Str(a) \o <<"-">> \o Str(b) : a \in SeasonYears, b \in SeasonYears}
SingleTokens ==
  {Str(a[1]) \o <<"-">> \o Fmt02d(a[2]) :
     a \in {<<y, n>> : y \in SeasonYears, n \in {0, 99}}
           \cup {<<y, (y + 1) % 100>> : y \in SeasonYears}}
Damaged(t) ==
  {t, Tail(t), SubSeq(t, 1, Len(t) - 1), t \o <<"x">>, t \o <<"\n">>,
   t \o <<"\n", "\n">>, <<" ">> \o t,
   [k \in 1..Len(t) |-> IF t[k] = "-" THEN "/" ELSE t[k]]}
\* The token with the digits at the positions of where written in the
\* script sc.
InScript(t, sc, where) ==
  [k \in 1..Len(t) |->
     IF k \in where /\ t[k] \in Range(Digits) THEN sc[DigitVal(t[k]) + 1]
     ELSE t[k]]
\* The same token in another script: all of it, its start year only, its
\* end only, or every second character.
Rewritten(t) ==
  {InScript(t, sc, where) :
     sc \in TokenScripts,
     where \in {1..Len(t), 1..4, 6..Len(t), {1, 3, 6, 8}}}
Tokens ==
  UNION {Damaged(u) : u \in UNION {Rewritten(t) : t \in RangeTokens \cup SingleTokens}}

\* The frames the deduplicator is applied to.
DedupRows == {Row(g, e, v) : g \in IdSet, e \in Ents, v \in 1..NumVals}
RECURSIVE SeqsUpTo(_, _)
SeqsUpTo(S, n) ==
  IF n = 0 THEN {<< >>}
  ELSE LET shorter == SeqsUpTo(S, n - 1)
       IN shorter \cup {Append(q, x) : q \in shorter, x \in S}
Frames == SeqsUpTo(DedupRows, MaxFrameLen)

\* ----------------------------------------------------- add_game_number
\* A games frame is a sequence of rows [TEAM_ID, SEASON_ID, GAME_DATE]; a
\* team has at most one game on a date.
Teams == 1..NumTeams
SeasonIds == {1, 2}
Dates == 1..NumDates
GameRows == [TEAM_ID : Teams, SEASON_ID : SeasonIds, GAME_DATE : Dates]
GameFrames == {f \in SeqsUpTo(GameRows, MaxGamesLen) :
                 \A j, k \in 1..Len(f) : f[j] = f[k] => j = k}

\* the order of sort_values(["TEAM_ID", "SEASON_ID", "GAME_DATE"])
GameLess(a, b) ==
  \/ a.TEAM_ID < b.TEAM_ID
  \/ a.TEAM_ID = b.TEAM_ID /\ a.SEASON_ID < b.SEASON_ID
  \/ a.TEAM_ID = b.TEAM_ID /\ a.SEASON_ID = b.SEASON_ID /\ a.GAME_DATE < b.GAME_DATE

RECURSIVE InsertGame(_, _)
InsertGame(sorted, r) ==
  IF sorted = << >> THEN <<r>>
  ELSE IF GameLess(r, Head(sorted))
       THEN <<r>> \o sorted
       ELSE <<Head(sorted)>> \o InsertGame(Tail(sorted), r)

RECURSIVE SortGames(_)
\* df.sort_values([...]): rows equal in the three columns keep their order
SortGames(df) ==
  IF df = << >> THEN << >>
  ELSE InsertGame(SortGames(SubSeq(df, 1, Len(df) - 1)), df[Len(df)])

\* Variant: groups are formed by SEASON_ID alone.
SameGroupSeasonOnly(a, b) == a.SEASON_ID = b.SEASON_ID

\* df.groupby(["TEAM_ID", "SEASON_ID"], sort=False)
SameGroup(a, b) == a.TEAM_ID = b.TEAM_ID /\ a.SEASON_ID = b.SEASON_ID

\* grp.cumcount() and grp["TEAM_ID"].transform("size") at row k
CumCount(df, k) == Cardinality({j \in 1..(k - 1) : SameGroup(df[j], df[k])})
GroupSize(df, k) == Cardinality({j \in 1..Len(df) : SameGroup(df[j], df[k])})

add_game_number(games, playoffs) ==
  IF games = << >> THEN games
  ELSE LET df == SortGames(games)
           base == IF playoffs THEN RegularSeasonGames ELSE 0
       IN [k \in 1..Len(df) |->
             [TEAM_ID |-> df[k].TEAM_ID,
              SEASON_ID |-> df[k].SEASON_ID,
              GAME_DATE |-> df[k].GAME_DATE,
              GAME_NUMBER |-> base + CumCount(df, k) + 1,
              GAME_NUMBER_REV |-> base + GroupSize(df, k) - CumCount(df, k)]]

\* ------------------------------------------------------------------ state
VARIABLES
  csv,         \* csv[m]: the output CSV of mode m (out_path)
  marker,      \* the marker file (last_id_path; its name has no mode label)
  pc,          \* "idle" | "loop" | "done" | "killed" | "error"
  advanced,    \* the advanced argument of the current run
  tb_arg,      \* the time_buffer argument of the current run
  calls,       \* calls made while fetches can fail and the process can be
               \* killed, counted up to MaxCalls
  game_ids,    \* the game_ids argument of the current run
  all_data,    \* the accumulated frame
  remaining,   \* the identifiers the loop iterates over
  i,           \* number of loop iterations completed
  time_buffer, \* hundredths of a second
  lastSleep,   \* the argument of the last time.sleep call of the run, 0 if none
  attempted,   \* history: identifiers whose fetch was started in this run, in order
  failed,      \* history: identifiers whose fetch raised in this run
  csv0,        \* history: the rows loaded from the CSV when the run started
  marker0,     \* history: the marker file when the run started
  token,         \* the argument of _season_iter
  season_result, \* what _season_iter did with it
  season_pc,     \* "off" | "input" | "returned"
  dd_x,          \* the argument of _clean_for_tableau
  dd_once,       \* _clean_for_tableau(dd_x)
  dd_twice,      \* _clean_for_tableau(dd_once)
  dd_pc,         \* "off" | "input" | "once" | "twice"
  gm_in,         \* the games argument of add_game_number
  gm_out,        \* what add_game_number returned
  gm_pc,         \* "off" | "input" | "regular" | "playoffs"
  reg_count,     \* history: regular-season games per (team, season) in the
                 \* regular-season frame
  rerun          \* "none", or "healed" once every fetch of the repeated call
                 \* succeeds with at least one row

runVars == <<csv, marker, pc, advanced, tb_arg, calls, game_ids, all_data,
             remaining, i,
             time_buffer, lastSleep, attempted, failed, csv0, marker0>>
fnVars == <<token, season_result, season_pc, dd_x, dd_once, dd_twice, dd_pc>>
gmVars == <<gm_in, gm_out, gm_pc, reg_count>>
auxVars == <<fnVars, gmVars, rerun>>
vars == <<runVars, auxVars>>

out == csv[mode_label(advanced)]

\* The files a call with the given advanced argument uses: out_path carries
\* mode_label (line 182), last_id_path does not (line 183).
out_file(adv) == csv[mode_label(adv)]
last_id_file(adv) == marker

RunIdle(m) ==
  /\ csv = [md \in ModeLabels |-> AbsentCsv]
  /\ marker = m
  /\ pc = "idle"
  /\ advanced = FALSE
  /\ tb_arg = DefaultTimeBuffer
  /\ calls = 0
  /\ game_ids = AllIds
  /\ all_data = << >>
  /\ remaining = << >>
  /\ i = 0
  /\ time_buffer = DefaultTimeBuffer
  /\ lastSleep = 0
  /\ attempted = << >>
  /\ failed = {}
  /\ csv0 = << >>
  /\ marker0 = AbsentTxt

RunInit == RunIdle(AbsentTxt)

FnOff ==
  /\ token = << >>
  /\ season_result = Raised
  /\ season_pc = "off"
  /\ dd_x = << >>
  /\ dd_once = << >>
  /\ dd_twice = << >>
  /\ dd_pc = "off"

GmOff ==
  /\ gm_in = << >>
  /\ gm_out = << >>
  /\ gm_pc = "off"
  /\ reg_count = [t \in Teams \X SeasonIds |-> 0]

Init ==
  /\ \E m \in InitialMarkers : RunIdle(m)
  /\ FnOff /\ GmOff /\ rerun = "none"

\* ---------------------------------------------------------------- actions
\* Lines 174-205: a call of get_historical_boxscores up to the loop.
StartRun(adv, ids, tb) ==
  /\ pc # "loop"
  /\ rerun = "none" => calls < MaxCalls
  /\ calls' = IF rerun = "none" THEN calls + 1 ELSE calls
  /\ csv[mode_label(adv)].st # "trunc"
  /\ LET prior == _read_existing_csv(csv[mode_label(adv)])
         done_ids == {prior[k].gameId : k \in 1..Len(prior)}
     IN /\ all_data' = prior
        /\ csv0' = csv[mode_label(adv)].rows
        /\ remaining' = Resume(SelectSeqNotIn(ids, done_ids), marker)
  /\ advanced' = adv
  /\ tb_arg' = tb
  /\ game_ids' = ids
  /\ marker0' = marker
  /\ pc' = "loop"
  /\ i' = 0
  /\ time_buffer' = Max(tb, MinTimeBuffer)
  /\ lastSleep' = 0
  /\ attempted' = << >>
  /\ failed' = {}
  /\ UNCHANGED <<csv, marker>>
  /\ UNCHANGED auxVars

\* Line 187 on a zero-byte CSV: pandas.read_csv raises EmptyDataError, which
\* nothing catches; the call ends before the loop.
StartRunEmptyFile(adv, ids, tb) ==
  /\ pc # "loop"
  /\ rerun = "none" => calls < MaxCalls
  /\ calls' = IF rerun = "none" THEN calls + 1 ELSE calls
  /\ csv[mode_label(adv)].st = "trunc"
  /\ advanced' = adv
  /\ tb_arg' = tb
  /\ game_ids' = ids
  /\ pc' = "error"
  /\ all_data' = << >>
  /\ csv0' = << >>
  /\ remaining' = << >>
  /\ marker0' = marker
  /\ i' = 0
  /\ time_buffer' = Max(tb, MinTimeBuffer)
  /\ lastSleep' = 0
  /\ attempted' = << >>
  /\ failed' = {}
  /\ UNCHANGED <<csv, marker>>
  /\ UNCHANGED auxVars

\* The checkpoint condition of line 229 for the n-th iteration.
IsCheckpoint(n) == (n % CheckpointEvery = 0) \/ (n = Len(remaining))

\* Lines 208-233: one iteration whose fetch returns df.
FetchOk(df) ==
  /\ pc = "loop"
  /\ i < Len(remaining)
  /\ df \in FetchResults(remaining[i + 1])
  /\ all_data' = all_data \o df
  /\ i' = i + 1
  /\ attempted' = Append(attempted, remaining[i + 1])
  /\ lastSleep' = time_buffer
  /\ IF IsCheckpoint(i + 1)
     THEN /\ csv' = [csv EXCEPT ![mode_label(advanced)] =
                        WrittenCsv(_clean_for_tableau(all_data \o df))]
          /\ marker' = WrittenTxt(remaining[i + 1])
     ELSE UNCHANGED <<csv, marker>>
  /\ UNCHANGED <<pc, advanced, tb_arg, calls, game_ids, remaining, time_buffer, failed,
                 csv0, marker0>>
  /\ UNCHANGED auxVars

\* Variant: a failure leaves the loop (break) after saving.
FetchFailBreak ==
  /\ pc = "loop"
  /\ i < Len(remaining)
  /\ csv' = [csv EXCEPT ![mode_label(advanced)] =
                WrittenCsv(_clean_for_tableau(all_data))]
  /\ marker' = WrittenTxt(remaining[i + 1])
  /\ time_buffer' = Backoff(time_buffer)
  /\ lastSleep' = Max(FailurePause, Backoff(time_buffer))
  /\ i' = Len(remaining)
  /\ attempted' = Append(attempted, remaining[i + 1])
  /\ failed' = failed \cup {remaining[i + 1]}
  /\ UNCHANGED <<pc, advanced, tb_arg, calls, game_ids, all_data, remaining,
                 csv0, marker0>>
  /\ UNCHANGED auxVars

\* Lines 235-243: one iteration whose fetch raises.
FetchFail ==
  /\ pc = "loop"
  /\ i < Len(remaining)
  /\ csv' = [csv EXCEPT ![mode_label(advanced)] =
                WrittenCsv(_clean_for_tableau(all_data))]
  /\ marker' = WrittenTxt(remaining[i + 1])
  /\ time_buffer' = Backoff(time_buffer)
  /\ lastSleep' = Max(FailurePause, Backoff(time_buffer))
  /\ i' = i + 1
  /\ attempted' = Append(attempted, remaining[i + 1])
  /\ failed' = failed \cup {remaining[i + 1]}
  /\ UNCHANGED <<pc, advanced, tb_arg, calls, game_ids, all_data, remaining,
                 csv0, marker0>>
  /\ UNCHANGED auxVars

\* Lines 245-249: the final write and the return.
Finish ==
  /\ pc = "loop"
  /\ i = Len(remaining)
  /\ csv' = [csv EXCEPT ![mode_label(advanced)] =
                WrittenCsv(_clean_for_tableau(all_data))]
  /\ pc' = "done"
  /\ UNCHANGED <<marker, advanced, tb_arg, calls, game_ids, all_data, remaining, i,
                 time_buffer, lastSleep, attempted, failed, csv0, marker0>>
  /\ UNCHANGED auxVars

\* The disk after the first k of the four steps of a persist of frame df
\* with marker gid: write the CSV (a kill inside the write leaves the file
\* f), close it, open the marker file (truncates it), write and close it.
CsvAfter(k, df, f) ==
  CASE k = 0 -> out
    [] k = 1 -> f
    [] OTHER -> WrittenCsv(_clean_for_tableau(df))
MarkerAfter(k, gid) ==
  CASE k <= 2 -> marker
    [] k = 3 -> TruncTxt
    [] OTHER -> WrittenTxt(gid)

\* The process is killed while it waits for the fetch of line 209.
KillWaiting ==
  /\ pc = "loop"
  /\ pc' = "killed"
  /\ UNCHANGED <<csv, marker, advanced, tb_arg, calls, game_ids, all_data, remaining,
                 i, time_buffer, lastSleep, attempted, failed, csv0, marker0>>
  /\ UNCHANGED auxVars

\* The process is killed in the sleep of line 226: the fetched frame is
\* merged (line 222) and nothing of the iteration is written.
KillInSleep(df) ==
  /\ pc = "loop"
  /\ i < Len(remaining)
  /\ df \in FetchResults(remaining[i + 1])
  /\ all_data' = all_data \o df
  /\ attempted' = Append(attempted, remaining[i + 1])
  /\ lastSleep' = time_buffer
  /\ pc' = "killed"
  /\ UNCHANGED <<csv, marker, advanced, tb_arg, calls, game_ids, remaining, i,
                 time_buffer, failed, csv0, marker0>>
  /\ UNCHANGED auxVars

\* The process is killed inside the checkpoint of lines 229-233, after the
\* first k steps of the persist.
KillInCheckpoint(df, k, how, n) ==
  /\ pc = "loop"
  /\ i < Len(remaining)
  /\ IsCheckpoint(i + 1)
  /\ df \in FetchResults(remaining[i + 1])
  /\ IF k = 1 THEN IsWriteOutcome(_clean_for_tableau(all_data \o df), how, n)
              ELSE how = "empty" /\ n = 0
  /\ all_data' = all_data \o df
  /\ attempted' = Append(attempted, remaining[i + 1])
  /\ lastSleep' = time_buffer
  /\ csv' = [csv EXCEPT ![mode_label(advanced)] =
                CsvAfter(k, all_data \o df,
                         InterruptedCsv(_clean_for_tableau(all_data \o df), how, n))]
  /\ marker' = MarkerAfter(k, remaining[i + 1])
  /\ pc' = "killed"
  /\ UNCHANGED <<advanced, tb_arg, calls, game_ids, remaining, i, time_buffer, failed,
                 csv0, marker0>>
  /\ UNCHANGED auxVars

\* The process is killed inside the failure handler of lines 235-243, after
\* the first k steps of the persist (k = 0: before to_csv opens the file).
KillInHandler(k, how, n) ==
  /\ pc = "loop"
  /\ i < Len(remaining)
  /\ IF k = 1 THEN IsWriteOutcome(_clean_for_tableau(all_data), how, n)
              ELSE how = "empty" /\ n = 0
  /\ attempted' = Append(attempted, remaining[i + 1])
  /\ failed' = failed \cup {remaining[i + 1]}
  /\ csv' = [csv EXCEPT ![mode_label(advanced)] =
                CsvAfter(k, all_data,
                         InterruptedCsv(_clean_for_tableau(all_data), how, n))]
  /\ marker' = MarkerAfter(k, remaining[i + 1])
  /\ pc' = "killed"
  /\ UNCHANGED <<advanced, tb_arg, calls, game_ids, all_data, remaining, i,
                 time_buffer, lastSleep, csv0, marker0>>
  /\ UNCHANGED auxVars

\* The process is killed inside the final write of lines 246-247, or after
\* it and before the return.
KillInFinish(how, n) ==
  /\ pc = "loop"
  /\ i = Len(remaining)
  /\ IsWriteOutcome(_clean_for_tableau(all_data), how, n)
  /\ csv' = [csv EXCEPT ![mode_label(advanced)] =
                InterruptedCsv(_clean_for_tableau(all_data), how, n)]
  /\ pc' = "killed"
  /\ UNCHANGED <<marker, advanced, tb_arg, calls, game_ids, all_data, remaining, i,
                 time_buffer, lastSleep, attempted, failed, csv0, marker0>>
  /\ UNCHANGED auxVars

Next ==
  \/ \E adv \in BOOLEAN, ids \in GameIdLists, tb \in TimeBufferArgs :
        StartRun(adv, ids, tb)
  \/ \E adv \in BOOLEAN, ids \in GameIdLists, tb \in TimeBufferArgs :
        StartRunEmptyFile(adv, ids, tb)
  \/ \E g \in IdSet : \E df \in FetchResults(g) : FetchOk(df)
  \/ FetchFail
  \/ Finish
  \/ KillWaiting
  \/ \E g \in IdSet : \E df \in FetchResults(g) : KillInSleep(df)
  \/ \E g \in IdSet : \E df \in FetchResults(g) : \E k \in 1..3 :
        \E how \in WriteOutcomes, n \in 0..(MaxLines - 1) :
           KillInCheckpoint(df, k, how, n)
  \/ \E k \in 0..3 : \E how \in WriteOutcomes, n \in 0..(MaxLines - 1) :
        KillInHandler(k, how, n)
  \/ \E how \in WriteOutcomes, n \in 0..(MaxLines - 1) : KillInFinish(how, n)

Spec == Init /\ [][Next]_vars

\* ------------------------------------------- the same call, again and again
\* One call of get_historical_boxscores made again and again, as by running
\* update_boxscores (lines 252-272) for the same file and list: the first
\* call chooses the arguments, every later call has the arguments of the
\* call before it.
SameArguments(adv, ids, tb) ==
  pc = "idle" \/ (adv = advanced /\ ids = game_ids /\ tb = tb_arg)

RerunInit == RunInit /\ FnOff /\ GmOff /\ rerun = "none"

RerunStart(adv, ids, tb) ==
  SameArguments(adv, ids, tb) /\ StartRun(adv, ids, tb)
RerunStartEmptyFile(adv, ids, tb) ==
  SameArguments(adv, ids, tb) /\ StartRunEmptyFile(adv, ids, tb)

\* Lines 208-233: while rerun = "none" a fetch returns any frame; afterwards
\* it returns at least one row.
RerunFetchOk(df) == (rerun = "none" \/ Len(df) >= 1) /\ FetchOk(df)

\* Variant: after a failure the same identifier is fetched again.
RerunFetchFailRetry ==
  /\ rerun = "none"
  /\ pc = "loop"
  /\ i < Len(remaining)
  /\ Len(attempted) <= Len(game_ids)
  /\ csv' = [csv EXCEPT ![mode_label(advanced)] =
                WrittenCsv(_clean_for_tableau(all_data))]
  /\ marker' = WrittenTxt(remaining[i + 1])
  /\ time_buffer' = Backoff(time_buffer)
  /\ lastSleep' = Max(FailurePause, Backoff(time_buffer))
  /\ attempted' = Append(attempted, remaining[i + 1])
  /\ failed' = failed \cup {remaining[i + 1]}
  /\ UNCHANGED <<pc, advanced, tb_arg, calls, game_ids, all_data, remaining,
                 i, csv0, marker0>>
  /\ UNCHANGED auxVars

\* Fetch failures and kills happen only while rerun = "none".
RerunFetchFail == rerun = "none" /\ FetchFail
RerunKillWaiting == rerun = "none" /\ KillWaiting
RerunKillInSleep(df) == rerun = "none" /\ KillInSleep(df)
RerunKillInCheckpoint(df, k, how, n) ==
  rerun = "none" /\ KillInCheckpoint(df, k, how, n)
RerunKillInHandler(k, how, n) == rerun = "none" /\ KillInHandler(k, how, n)
RerunKillInFinish(how, n) == rerun = "none" /\ KillInFinish(how, n)

\* Between two calls: from the next call on every fetch succeeds with at
\* least one row and the process is not killed.
Heal ==
  /\ rerun = "none"
  /\ pc # "loop"
  /\ rerun' = "healed"
  /\ UNCHANGED <<runVars, fnVars, gmVars>>

\* One step of the loop of lines 207-249 of a process that is not killed.
RunStep ==
  \/ \E g \in IdSet : \E df \in FetchResults(g) : RerunFetchOk(df)
  \/ RerunFetchFail
  \/ Finish

\* The next call of the repeated call.
Restart ==
  /\ rerun # "none"
  /\ \E adv \in BOOLEAN, ids \in GameIdLists, tb \in TimeBufferArgs :
        RerunStart(adv, ids, tb) \/ RerunStartEmptyFile(adv, ids, tb)

RerunNext ==
  \/ \E adv \in BOOLEAN, ids \in GameIdLists, tb \in TimeBufferArgs :
        RerunStart(adv, ids, tb)
  \/ \E adv \in BOOLEAN, ids \in GameIdLists, tb \in TimeBufferArgs :
        RerunStartEmptyFile(adv, ids, tb)
  \/ \E g \in IdSet : \E df \in FetchResults(g) : RerunFetchOk(df)
  \/ RerunFetchFail
  \/ Finish
  \/ RerunKillWaiting
  \/ \E g \in IdSet : \E df \in FetchResults(g) : RerunKillInSleep(df)
  \/ \E g \in IdSet : \E df \in FetchResults(g) : \E k \in 1..3 :
        \E how \in WriteOutcomes, n \in 0..(MaxLines - 1) :
           RerunKillInCheckpoint(df, k, how, n)
  \/ \E k \in 0..3 : \E how \in WriteOutcomes, n \in 0..(MaxLines - 1) :
        RerunKillInHandler(k, how, n)
  \/ \E how \in WriteOutcomes, n \in 0..(MaxLines - 1) : RerunKillInFinish(how, n)
  \/ Heal

\* The loop is sequential code: an iteration that is not killed completes,
\* and after the last one the final write runs.  Once the fetches have
\* healed the call keeps being repeated.
SpecRerun ==
  RerunInit /\ [][RerunNext]_vars /\ WF_vars(RunStep) /\ WF_vars(Restart)


\* ------------------------------------------- the pure functions, applied
SeasonInit ==
  /\ RunInit
  /\ GmOff
  /\ rerun = "none"
  /\ token \in Tokens
  /\ season_result = Raised
  /\ season_pc = "input"
  /\ dd_x = << >>
  /\ dd_once = << >>
  /\ dd_twice = << >>
  /\ dd_pc = "off"

\* A call _season_iter(token).
Expand ==
  /\ season_pc = "input"
  /\ season_result' = _season_iter(token)
  /\ season_pc' = "returned"
  /\ UNCHANGED <<token, dd_x, dd_once, dd_twice, dd_pc>>
  /\ UNCHANGED <<runVars, gmVars, rerun>>

SeasonNext == Expand
SpecSeason == SeasonInit /\ [][SeasonNext]_vars


\* The calls of add_game_number made by update_all (lines 284-292).
GamesInit ==
  /\ RunInit
  /\ FnOff
  /\ rerun = "none"
  /\ gm_in \in GameFrames
  /\ gm_out = << >>
  /\ gm_pc = "input"
  /\ reg_count = [t \in Teams \X SeasonIds |-> 0]

\* add_game_number(games, playoffs=False) on the regular-season frame
NumberRegular ==
  /\ gm_pc = "input"
  /\ gm_out' = add_game_number(gm_in, FALSE)
  /\ gm_pc' = "regular"
  /\ reg_count' = [t \in Teams \X SeasonIds |->
                     Cardinality({k \in 1..Len(gm_in) :
                        gm_in[k].TEAM_ID = t[1] /\ gm_in[k].SEASON_ID = t[2]})]
  /\ UNCHANGED <<gm_in, rerun>>
  /\ UNCHANGED <<runVars, fnVars>>

\* add_game_number(pgames, playoffs=True) on the playoffs frame
NumberPlayoffs(pgames) ==
  /\ gm_pc = "regular"
  /\ gm_in' = pgames
  /\ gm_out' = add_game_number(pgames, TRUE)
  /\ gm_pc' = "playoffs"
  /\ UNCHANGED <<reg_count, rerun>>
  /\ UNCHANGED <<runVars, fnVars>>

GamesNext == NumberRegular \/ \E pgames \in GameFrames : NumberPlayoffs(pgames)
SpecGames == GamesInit /\ [][GamesNext]_vars

DedupInit ==
  /\ RunInit
  /\ GmOff
  /\ rerun = "none"
  /\ token = << >>
  /\ season_result = Raised
  /\ season_pc = "off"
  /\ dd_x \in Frames
  /\ dd_once = << >>
  /\ dd_twice = << >>
  /\ dd_pc = "input"

\* A call _clean_for_tableau(dd_x).
DedupOnce ==
  /\ dd_pc = "input"
  /\ dd_once' = _clean_for_tableau(dd_x)
  /\ dd_pc' = "once"
  /\ UNCHANGED <<token, season_result, season_pc, dd_x, dd_twice>>
  /\ UNCHANGED <<runVars, gmVars, rerun>>

\* A call of _clean_for_tableau on the frame the first call returned.
DedupTwice ==
  /\ dd_pc = "once"
  /\ dd_twice' = _clean_for_tableau(dd_once)
  /\ dd_pc' = "twice"
  /\ UNCHANGED <<token, season_result, season_pc, dd_x, dd_once>>
  /\ UNCHANGED <<runVars, gmVars, rerun>>

DedupNext == DedupOnce \/ DedupTwice
SpecDedup == DedupInit /\ [][DedupNext]_vars


\* ------------------------------------------------------ claim vocabulary
RowSet(df) == Range(df)
NoDupRows(df) == \A j, k \in 1..Len(df) : df[j] = df[k] => j = k
RowsOf(df, g) == {r \in RowSet(df) : r.gameId = g}
GameIdsOf(df) == {r.gameId : r \in RowSet(df)}
InRun == pc \in {"loop", "done", "killed"}

\* C1, reading "merged" as "merged and persisted" (the loop persists on
\* every 100th identifier, on the last one and after a failure): whenever
\* the process has been killed, the output CSV can be read, holds every row
\* it held at run start and otherwise only rows merged before the kill,
\* each game with all of its merged rows or none, and no row twice.
C1_KilledCsvUndamaged ==
  pc = "killed" =>
    /\ out.st # "trunc"
    /\ RowSet(csv0) \subseteq RowSet(out.rows)
    /\ RowSet(out.rows) \subseteq RowSet(all_data)
    /\ NoDupRows(out.rows)
    /\ \A g \in IdSet : RowsOf(out.rows, g) \in {{}, RowsOf(all_data, g)}

\* The marker file m names the identifier g: its content, without the
\* white space around it, is the text of g.
Names(m, g) == m.st = "ok" /\ strip(fh_read(m.text)) = g
\* The identifiers of game_ids without a row in the CSV loaded at run start,
\* in list order.
MissingIds == SelectSeqNotIn(game_ids, GameIdsOf(csv0))

\* C2 (as stated): in a run that started with a marker m that is in
\* game_ids, no identifier positioned before m in game_ids is fetched.
C2_NoFetchBeforeMarkerInGameIds ==
  \A g \in IdSet :
    (InRun /\ g \in Range(game_ids) /\ Names(marker0, g)) =>
      \A k \in 1..Len(attempted) :
        Index(game_ids, attempted[k]) >= Index(game_ids, g)

\* C2 (amended): in a run that started with a marker m that is in game_ids
\* and has no row in the CSV loaded at run start (m is in the remaining
\* list), no identifier positioned before m in game_ids is fetched.  In a
\* run that started with a marker m that is in game_ids and has a row in
\* the loaded CSV, the marker does not restrict the run: the identifiers
\* fetched so far are the first identifiers of game_ids without a row in the
\* loaded CSV, in list order, and a run that has returned has fetched all
\* of them.
C2_NoFetchBeforeMarkerInRemaining ==
  \A g \in IdSet :
    (InRun /\ g \in Range(game_ids) /\ Names(marker0, g)) =>
      IF g \notin GameIdsOf(csv0)
      THEN \A k \in 1..Len(attempted) :
             Index(game_ids, attempted[k]) >= Index(game_ids, g)
      ELSE /\ Len(attempted) <= Len(MissingIds)
           /\ \A k \in 1..Len(attempted) : attempted[k] = MissingIds[k]
           /\ pc = "done" => attempted = MissingIds

\* A run that returned after it started with a marker in the remaining
\* list and a missing identifier before it, the marker with white space
\* around the identifier.
C2_Witness ==
  /\ pc = "done"
  /\ attempted # << >>
  /\ \E g \in Range(game_ids) :
       /\ Names(marker0, g)
       /\ marker0.text # g
       /\ g \notin GameIdsOf(csv0)
       /\ \E j \in 1..Len(game_ids) :
            /\ j < Index(game_ids, g)
            /\ game_ids[j] \notin GameIdsOf(csv0)

\* C3: a step in which a fetch fails leaves the accumulated dataset in the
\* CSV and the failed identifier in the marker file, sets the time buffer
\* to its backoff value, sleeps the longer of the failure pause and the new
\* time buffer, and moves the loop to the next identifier; and a run that
\* has returned has attempted every identifier of its remaining list,
\* failures included.
C3_FailurePersistsAndContinues ==
  /\ [][(failed \subseteq failed' /\ failed' # failed /\ pc' # "killed") =>
          /\ csv'[mode_label(advanced)].st = "ok"
          /\ RowSet(csv'[mode_label(advanced)].rows) = RowSet(all_data)
          /\ marker' = [st |-> "ok", text |-> attempted'[Len(attempted')]]
          /\ attempted'[Len(attempted')] = remaining[i + 1]
          /\ time_buffer' = Backoff(time_buffer)
          /\ lastSleep' = Max(FailurePause, time_buffer')
          /\ lastSleep' >= FailurePause
          /\ pc' = "loop"
          /\ i' = i + 1
          /\ remaining' = remaining]_vars
  /\ [](pc = "done" => attempted = remaining)

C3_Witness ==
  /\ pc = "done"
  /\ \E k \in 1..Len(attempted) :
       /\ attempted[k] \in failed
       /\ k < Len(attempted)
       /\ attempted[Len(attempted)] \notin failed

\* C4: whenever the marker file holds an identifier g, g has
\* been processed and persisted: the output CSV of the run holds rows of g,
\* or g was fetched in this run without a failure and had no rows.
C4_MarkerNamesPersistedGame ==
  \A g \in IdSet :
    (InRun /\ marker = [st |-> "ok", text |-> g]) =>
      \/ RowsOf(out.rows, g) # {}
      \/ (g \in Range(attempted) /\ g \notin failed)

\* C5: no identifier that has a row in the CSV as it was on disk when the
\* run started is fetched during the run.
C5_DoneIdsNeverFetched ==
  InRun => \A k \in 1..Len(attempted) : attempted[k] \notin GameIdsOf(csv0)

C5_Witness ==
  /\ pc = "done"
  /\ GameIdsOf(csv0) \cap Range(game_ids) # {}
  /\ attempted # << >>

\* C6: during a run and when it has returned, every row that was in the CSV
\* when the run started is in the CSV; when the run has returned the CSV
\* exists and holds no row twice.
C6_RowsAccumulate ==
  /\ pc \in {"loop", "done"} => RowSet(csv0) \subseteq RowSet(out.rows)
  /\ pc = "done" => (out.st = "ok" /\ NoDupRows(out.rows))

C6_Witness ==
  /\ pc = "done"
  /\ csv0 # << >>
  /\ Len(out.rows) > Len(csv0)

\* ---- claims about _clean_for_tableau (SpecDedup)
Key(r) == <<r.gameId, r.ent>>
LastWithKey(df, key) ==
  df[CHOOSE k \in 1..Len(df) :
       Key(df[k]) = key /\ \A j \in (k + 1)..Len(df) : Key(df[j]) # key]

\* C7: the deduplicated frame has exactly one row for every
\* (gameId, entity) key of the input, and that row is the last row of the
\* input that carries the key.
C7_OneRowPerKeyLastWins ==
  dd_pc \in {"once", "twice"} =>
    /\ \A j, k \in 1..Len(dd_once) : Key(dd_once[j]) = Key(dd_once[k]) => j = k
    /\ {Key(r) : r \in RowSet(dd_once)} = {Key(r) : r \in RowSet(dd_x)}
    /\ \A k \in 1..Len(dd_once) : dd_once[k] = LastWithKey(dd_x, Key(dd_once[k]))

\* C8: deduplicating the deduplicated frame returns it unchanged, same rows
\* in the same order.
C8_DedupIdempotent ==
  dd_pc = "twice" => dd_twice = dd_once

C8_Witness ==
  /\ dd_pc = "twice"
  /\ Len(dd_once) >= 2
  /\ Len(dd_once) < Len(dd_x)

\* ---- claims about _season_iter (SpecSeason)
\* The documented token shapes: 'YYYY-YY' and 'YYYY-YYYY'.
IsSingleShape(t) ==
  /\ Len(t) = 7
  /\ \A k \in {1, 2, 3, 4, 6, 7} : IsDigit(t[k])
  /\ t[5] = "-"
IsRangeShape(t) ==
  /\ Len(t) = 9
  /\ \A k \in {1, 2, 3, 4, 6, 7, 8, 9} : IsDigit(t[k])
  /\ t[5] = "-"
\* A range token as the pattern of line 22 takes it: "$" also matches
\* before one newline that ends the string.
IsRangeToken(t) ==
  \/ IsRangeShape(t)
  \/ Len(t) = 10 /\ t[10] = "\n" /\ IsRangeShape(SubSeq(t, 1, 9))
TokenStart(t) == int(SubSeq(t, 1, 4))
TokenEnd(t) == int(SubSeq(t, 6, 9))
\* the start year and the two-digit suffix a label 'Y-SS' shows
LabelStart(l) == int(SubSeq(l, 1, Len(l) - 3))
LabelSuffix(l) == int(SubSeq(l, Len(l) - 1, Len(l)))
IsLabel(l) ==
  /\ Len(l) >= 4
  /\ AllDigits(SubSeq(l, 1, Len(l) - 3))
  /\ (Len(l) > 4 => l[1] # "0")
  /\ l[Len(l) - 2] = "-"
  /\ AllDigits(SubSeq(l, Len(l) - 1, Len(l)))

\* C9: _season_iter raises for every token that has neither documented
\* shape and for every range token whose end year does not exceed its start
\* year.
C9_RejectsMalformedAndNonIncreasing ==
  (season_pc = "returned"
     /\ \/ ~(IsSingleShape(token) \/ IsRangeShape(token))
        \/ (IsRangeShape(token) /\ TokenEnd(token) <= TokenStart(token))) =>
    season_result.raised

\* C10: for a range token whose end year exceeds its start year, its years
\* written in decimal digits of any script, _season_iter returns a
\* non-empty list of labels 'Y-SS' in ASCII digits with SS the two digits of
\* (Y+1) mod 100, the first Y being the start year of the token and every
\* next Y one more than the one before.
C10_ConsecutiveSeasonLabels ==
  (season_pc = "returned" /\ IsRangeToken(token)
     /\ TokenEnd(token) > TokenStart(token)) =>
    LET v == season_result.value
    IN /\ ~season_result.raised
       /\ Len(v) >= 1
       /\ \A k \in 1..Len(v) :
            /\ IsLabel(v[k])
            /\ Range(v[k]) \subseteq Range(Digits) \cup {"-"}
            /\ Len(v[k]) = 7
            /\ LabelSuffix(v[k]) = (LabelStart(v[k]) + 1) % 100
       /\ LabelStart(v[1]) = TokenStart(token)
       /\ \A k \in 1..(Len(v) - 1) : LabelStart(v[k + 1]) = LabelStart(v[k]) + 1

C10_Witness ==
  /\ season_pc = "returned"
  /\ IsRangeToken(token)
  /\ \E k \in 1..4 : token[k] \notin Range(Digits)
  /\ TokenEnd(token) > TokenStart(token)
  /\ Len(season_result.value) >= 3
  /\ \E k \in 1..Len(season_result.value) : LabelSuffix(season_result.value[k]) = 0

\* C11: for a range token 'S-E' with E above S, _season_iter returns E-S
\* labels, the first for start year S and the last for the season that ends
\* in year E, that is the label '(E-1)-E' (as in the docstring example).
C11_RangeEndsWithSeasonEndingInE ==
  (season_pc = "returned" /\ IsRangeShape(token)
     /\ TokenEnd(token) > TokenStart(token)) =>
    LET v == season_result.value
    IN /\ ~season_result.raised
       /\ Len(v) = TokenEnd(token) - TokenStart(token)
       /\ LabelStart(v[1]) = TokenStart(token)
       /\ LabelStart(v[Len(v)]) = TokenEnd(token) - 1
       /\ LabelSuffix(v[Len(v)]) = TokenEnd(token) % 100

\* ---- claims about add_game_number (SpecGames)
GroupRows(df, t, sn) == {k \in 1..Len(df) : df[k].TEAM_ID = t /\ df[k].SEASON_ID = sn}
\* the GAME_NUMBER values of a group are first, first+1, ... in ascending
\* game-date order
NumberedFrom(df, t, sn, first) ==
  LET G == GroupRows(df, t, sn)
  IN /\ {df[k].GAME_NUMBER : k \in G} = first..(first + Cardinality(G) - 1)
     /\ \A j, k \in G : df[j].GAME_DATE < df[k].GAME_DATE
                          => df[j].GAME_NUMBER < df[k].GAME_NUMBER
     /\ \A j, k \in G : df[j].GAME_NUMBER = df[k].GAME_NUMBER => j = k
SameGames(df, games) ==
  /\ Len(df) = Len(games)
  /\ {[TEAM_ID |-> r.TEAM_ID, SEASON_ID |-> r.SEASON_ID, GAME_DATE |-> r.GAME_DATE] :
        r \in Range(df)} = Range(games)

\* C12 (as stated): the returned frame numbers the games of every (team,
\* season) group consecutively in ascending date order, from 1 for the
\* regular season and, for the playoffs, from the number of regular-season
\* games of that team in that season plus one.
C12_PlayoffsContinueFromRegularCount ==
  /\ gm_pc = "regular" =>
       \A t \in Teams, sn \in SeasonIds : NumberedFrom(gm_out, t, sn, 1)
  /\ gm_pc = "playoffs" =>
       \A t \in Teams, sn \in SeasonIds :
         NumberedFrom(gm_out, t, sn, reg_count[<<t, sn>>] + 1)

\* C12 (amended): the returned frame holds the games of the argument and
\* numbers the games of every (team, season) group consecutively in
\* ascending date order, from 1 for the regular season and from 83 (82 + 1)
\* for the playoffs, whatever the regular-season game count of the team was.
C12_PlayoffsContinueFrom82 ==
  /\ gm_pc = "regular" =>
       /\ SameGames(gm_out, gm_in)
       /\ \A t \in Teams, sn \in SeasonIds : NumberedFrom(gm_out, t, sn, 1)
  /\ gm_pc = "playoffs" =>
       /\ SameGames(gm_out, gm_in)
       /\ \A t \in Teams, sn \in SeasonIds :
            NumberedFrom(gm_out, t, sn, RegularSeasonGames + 1)

C12_Witness ==
  /\ gm_pc = "playoffs"
  /\ \E t \in Teams, sn \in SeasonIds :
       /\ Cardinality(GroupRows(gm_out, t, sn)) >= 2
       /\ reg_count[<<t, sn>>] >= 1
       /\ gm_out[1].GAME_NUMBER = RegularSeasonGames + 1
       /\ \E u \in Teams \ {t} : GroupRows(gm_out, u, sn) # {}
       /\ \E j, k \in 1..Len(gm_in) :
            /\ j < k
            /\ gm_in[j].TEAM_ID > gm_in[k].TEAM_ID
            /\ gm_in[j].SEASON_ID = sn /\ gm_in[k].SEASON_ID = sn

\* C13: a step of a run in one mode leaves unchanged the data file and the
\* marker file that a run in the other mode (same season, level and playoff
\* flag) uses.
C13_OtherModeCheckpointUntouched ==
  [][pc = "loop" =>
       /\ out_file(~advanced)' = out_file(~advanced)
       /\ last_id_file(~advanced)' = last_id_file(~advanced)]_vars

\* C14: when a run has returned in which no fetch failed and every fetch
\* returned at least one row, the output CSV holds rows of every identifier
\* of game_ids; the run started without a marker file or with one that an
\* earlier run wrote (an identifier and nothing else).
C14_SuccessfulRunCoversGameIds ==
  (pc = "done" /\ failed = {}
     /\ (marker0.st = "absent" \/ \E g \in IdSet : marker0 = [st |-> "ok", text |-> g])
     /\ \A k \in 1..Len(attempted) : RowsOf(all_data, attempted[k]) # {}) =>
    /\ out.st = "ok"
    /\ \A g \in Range(game_ids) : RowsOf(out.rows, g) # {}

\* The output CSV holds rows of every identifier of game_ids.
Complete ==
  /\ out.st = "ok"
  /\ \A g \in Range(game_ids) : RowsOf(out.rows, g) # {}
NoRepeat(s) == \A j, k \in 1..Len(s) : s[j] = s[k] => j = k

\* C15: every run that is not killed terminates, whatever fetches succeed
\* or fail: a run attempts each identifier of the remaining list at most
\* once, hence makes at most len(game_ids) fetch attempts, and a run in the
\* loop always reaches the final write and returns, leaving the cleaned
\* accumulated frame in the CSV.
C15_RunTerminates ==
  /\ [](InRun => /\ NoRepeat(attempted)
                 /\ Range(attempted) \subseteq Range(remaining)
                 /\ Len(attempted) <= Len(game_ids))
  /\ [](pc = "done" => out = WrittenCsv(_clean_for_tableau(all_data)))
  /\ (pc = "loop") ~> (pc = "done" \/ pc = "killed")

C15_Witness ==
  /\ pc = "done"
  /\ Len(game_ids) >= 2
  /\ attempted = game_ids
  /\ failed = Range(game_ids)

\* C16: once every fetch succeeds with at least one row, repeating the call
\* with the same arguments eventually leaves a CSV with rows of every
\* identifier of game_ids, and from then on a run fetches nothing and
\* leaves the CSV unchanged.
C16_RerunsConverge ==
  /\ (rerun = "healed") ~> (rerun = "healed" /\ Complete)
  /\ [][(rerun = "healed" /\ Complete) =>
          /\ csv' = csv
          /\ attempted' \in {attempted, << >>}]_vars

TypeOK ==
  /\ pc \in {"idle", "loop", "done", "killed", "error"}
  /\ advanced \in BOOLEAN
  /\ game_ids \in GameIdLists
  /\ i \in 0..Len(remaining)
  /\ Range(remaining) \subseteq Range(game_ids)
  /\ marker.st \in {"absent", "ok", "garbled"}
  /\ \A m \in ModeLabels : csv[m].st \in {"absent", "trunc", "ok"}
  /\ \A m \in ModeLabels : \A r \in Range(csv[m].rows) :
        /\ r.gameId \in IdSet \cup {PartialId(g) : g \in IdSet}
        /\ r.ent \in 0..NumEnts
        /\ r.val \in 0..NumVals
        /\ r.gameId \notin IdSet => r.ent = 0
        /\ r.ent = 0 => r.val = 0
  /\ Len(_clean_for_tableau(all_data)) <= MaxLines
  /\ gm_pc \in {"off", "input", "regular", "playoffs"}
  /\ rerun \in {"none", "healed"}
====
